---- MODULE Spec2Model ----
(***************************************************************************)
(* Learning-progress backend (backend/api): the progress store, the course *)
(* table, and the request handlers that write them.                        *)
(*                                                                         *)
(* A request handler runs in a worker.  A handler that reads the store and *)
(* writes it back later (the serializer-driven create and update, the loop *)
(* of bulk_update) is split at the point where another worker's write can  *)
(* land in between; one ORM statement (update_or_create, a row INSERT or   *)
(* UPDATE) is one atomic step of the datastore.                            *)
(*                                                                         *)
(* Percentages are exact rationals kept as integers scaled by PctScale, so *)
(* that lessons_completed / total_lessons * 100 is computed, not assumed.  *)
(*                                                                         *)
(* The analytics part (performance metrics, API response logs, the         *)
(* response cache, the dashboard) is specified in four further systems     *)
(* over the same variables: MetricSpec (the metric table and the reports   *)
(* computed from it, the clock standing), SampleSpec (the metric table     *)
(* over time and the representation of one sample), LogSpec (the log       *)
(* table, its windows and rates) and CacheSpec (cache_page and the row the *)
(* logging layer writes for each request).  The row that dispatch writes   *)
(* is specified in the last two and left out of the actions of the other   *)
(* systems, which do not read it; Handled is a bulk_update request as      *)
(* dispatch sees it.                                                       *)
(* A report is computed on one snapshot of the store.  Reported numbers    *)
(* are integers in hundredths, rounded as round(x, 2) rounds; a raised     *)
(* exception is an outcome ([raised, value]), not an evaluation failure.   *)
(* Durations are clock ticks: Day, DashboardTTL and PopularTTL keep the    *)
(* order of the source's 24 h, 5 min and 15 min, not their magnitude.      *)
(***************************************************************************)
EXTENDS Integers, Sequences, FiniteSets, TLC

\* ---------------------------------------------------------------- bounds
MaxLessons == 2
MaxMinutes == 1
MaxClock == 2
MaxCourses == 1
MaxBatch == 2
MaxRaceBatch == 1
MaxSaving == 1
MaxValue == 3
MaxMetrics == 2
MaxLogs == 4
MaxTime == 4
MaxHours == 2

\* ------------------------------------------------------------- constants
\* completed_at = NULL
Null == 0

\* The users the identity provider knows; UserIds also holds an id of no user.
Users == {1}
UserIds == {1, 2}
\* Course ids a request can name; an id is of no course until it is created.
CourseIds == 1..MaxCourses
Workers == {"w1", "w2"}

VARIABLES
    courses,    \* Course table: courses[c] = total_lessons of course id c
    progress,   \* LearningProgress table: progress[i] = the row with id i
    now,        \* timezone.now()
    pc,         \* pc[w]: where worker w's request handler stands
    items,      \* items[w]: validated items bulk_update has still to apply
    count,      \* count[w]: bulk_update's updated_count
    inst,       \* inst[w]: the in-memory instance a serializer is about to save
    resp,       \* the response the last step returned (NoResp: none)
    everFull,   \* everFull[i]: time of the first write to row i that stored
                \* completion_percentage >= 100 (Null: none so far)
    metrics,    \* UserPerformanceMetric table: metrics[i] = the sample with id i
    logs,       \* APIResponseLog table: logs[i] = the row with id i
    cache,      \* django.core.cache: cache[key] = the entry stored under key
    reply,      \* the response an analytics endpoint returned last (NoReply: none)
    origin      \* origin[i]: how the call logged as row i was answered ("cache":
                \* from the response cache, "store": computed from the
                \* datastore), or "admin" for a row the admin site added

vars == <<courses, progress, now, pc, items, count, inst, resp, everFull,
          metrics, logs, cache, reply, origin>>

\* What the handlers of the progress store leave alone, and what the
\* analytics endpoints leave alone.
analytics == <<metrics, logs, cache, reply, origin>>

learning == <<courses, progress, pc, items, count, inst, resp, everFull>>

\* ------------------------------------------------------------ percentages
RECURSIVE Gcd(_, _)
Gcd(a, b) == IF b = 0 THEN a ELSE Gcd(b, a % b)

RECURSIVE LcmUpTo(_)
LcmUpTo(n) == IF n <= 1 THEN 1 ELSE (LcmUpTo(n - 1) * n) \div Gcd(LcmUpTo(n - 1), n)

\* One percent, as stored: every quotient c / L with L in 1..MaxLessons is exact.
PctScale == LcmUpTo(MaxLessons)

\* (lessons_completed / total_lessons) * 100
Pct(c, L) == (c * 100 * PctScale) \div L

\* The literal 100 of `completion_percentage >= 100`
Full == 100 * PctScale

\* ------------------------------------------------------------------- rows
NewRow(u, c, l, m) ==
    [user |-> u, course |-> c, lessons_completed |-> l, time_spent_minutes |-> m,
     completion_percentage |-> 0, completed_at |-> Null]

NoInst == [id |-> 0, row |-> NewRow(0, 0, 0, 0), total |-> 0]

\* A response: the HTTP status, serializer.errors (one entry per item of the
\* request data, each the set of that item's errors) and updated_count.
NoResp == [status |-> 0, errors |-> <<>>, updated_count |-> 0]

Response(s, e, n) == [status |-> s, errors |-> e, updated_count |-> n]

\* A response of an analytics endpoint: which endpoint answered, the HTTP
\* status and the body.
NoReply == [endpoint |-> "", status |-> 0, body |-> <<>>]

Reply(e, s, b) == [endpoint |-> e, status |-> s, body |-> b]

\* The cache with nothing stored.
NoCache == <<>>

\* Durations, in ticks of the clock, each on a scale of its own: a handler
\* only asks whether a timestamp is inside a window and whether an entry has
\* expired.  The dashboard's window of 24 hours, cache_page(60 * 5) of the
\* dashboard and cache_page(60 * 15) of the popular courses.
Day == 2

DashboardTTL == 2

PopularTTL == 3

\* LearningProgress.save without the `and not self.completed_at` guard:
\* completed_at is stamped on every save that stores 100% or more.
SaveRestamps(row, total, t) ==
    LET pct == IF total > 0
               THEN Pct(row.lessons_completed, total)
               ELSE row.completion_percentage
    IN  [row EXCEPT !.completion_percentage = pct,
                    !.completed_at = IF pct >= Full THEN t ELSE row.completed_at]

\* A save that writes the percentage and leaves completed_at as it found it.
SaveUnstamped(row, total, t) ==
    [row EXCEPT !.completion_percentage =
                    IF total > 0 THEN Pct(row.lessons_completed, total)
                                 ELSE row.completion_percentage]

\* LearningProgress.save: the row as written, for a course of `total` lessons,
\* at time t.
Save(row, total, t) ==
    LET pct == IF total > 0
               THEN Pct(row.lessons_completed, total)
               ELSE row.completion_percentage
        cat == IF pct >= Full /\ row.completed_at = Null
               THEN t
               ELSE row.completed_at
    IN  [row EXCEPT !.completion_percentage = pct, !.completed_at = cat]

\* is_completed
IsCompleted(row) == row.completion_percentage >= Full

\* Rows of a (user, course) pair: the lookup of update_or_create.
RowsOf(u, c) ==
    {i \in DOMAIN progress : progress[i].user = u /\ progress[i].course = c}

\* A table without the unique_together constraint accepts every row.
UniqueTogetherDropped(u, c, id) == TRUE

\* unique_together = ['user', 'course']: the datastore accepts row `id`
\* (0: a new row) with this pair only if no other row has it.
UniqueTogether(u, c, id) ==
    \A i \in DOMAIN progress :
        i # id => ~(progress[i].user = u /\ progress[i].course = c)

\* The history of "a write stored completion_percentage >= 100", kept beside
\* the table and independently of completed_at.
Noted(old, row) == IF old = Null /\ IsCompleted(row) THEN now ELSE old

Init ==
    /\ courses = <<>>
    /\ progress = <<>>
    /\ now = 1
    /\ pc = [w \in Workers |-> "idle"]
    /\ items = [w \in Workers |-> <<>>]
    /\ count = [w \in Workers |-> 0]
    /\ inst = [w \in Workers |-> NoInst]
    /\ resp = NoResp
    /\ everFull = <<>>
    /\ metrics = <<>>
    /\ logs = <<>>
    /\ cache = NoCache
    /\ reply = NoReply
    /\ origin = <<>>

\* ---------------------------------------------------------------- clock
Tick ==
    /\ now < MaxClock
    /\ now' = now + 1
    /\ UNCHANGED <<courses, progress, pc, items, count, inst, resp, everFull, analytics>>

\* --------------------------------------------------------------- courses
\* CourseViewSet create: POST /api/courses/
CourseCreate(total) ==
    /\ Len(courses) < MaxCourses
    /\ courses' = Append(courses, total)
    /\ UNCHANGED <<progress, now, pc, items, count, inst, resp, everFull, analytics>>

\* CourseViewSet update: PUT/PATCH /api/courses/{id}/ changes total_lessons
\* and touches no progress row.
CourseEdit(c, total) ==
    /\ c \in DOMAIN courses
    /\ courses[c] # total
    /\ courses' = [courses EXCEPT ![c] = total]
    /\ UNCHANGED <<progress, now, pc, items, count, inst, resp, everFull, analytics>>

\* ------------------------------------------------------------ bulk update
Items ==
    [user_id : UserIds, course_id : CourseIds,
     lessons_completed : 0..MaxLessons, time_spent_minutes : 0..MaxMinutes]

Batches == UNION {[1..n -> Items] : n \in 0..MaxBatch}

RaceBatches == UNION {[1..n -> Items] : n \in 0..MaxRaceBatch}

\* BulkLearningProgressSerializer.validate: the errors of one item.
ItemErrors(it) ==
    IF it.user_id \notin Users THEN {<<"no_user", it.user_id>>}
    ELSE IF it.course_id \notin DOMAIN courses THEN {<<"no_course", it.course_id>>}
    ELSE {}

\* serializer.errors over many=True: one entry per item, in request order.
BatchErrors(batch) == [k \in DOMAIN batch |-> ItemErrors(batch[k])]

\* A validation that looks at the first item only (many=True left out).
BatchValidFirstOnly(batch) == batch = <<>> \/ ItemErrors(batch[1]) = {}

\* serializer.is_valid() over many=True: valid only if every item is.
BatchValid(batch) == \A k \in DOMAIN batch : BatchErrors(batch)[k] = {}

\* bulk_update up to the loop, as a function of the request data: where the
\* handler goes, the validated items it will loop over, and the response it
\* returns at once (the 400 with serializer.errors, or the 200 of an empty
\* batch).
BulkOutcome(batch) ==
    IF ~BatchValid(batch)
    THEN [pc |-> "idle", items |-> <<>>, resp |-> Response(400, BatchErrors(batch), 0)]
    ELSE IF batch = <<>>
    THEN [pc |-> "idle", items |-> <<>>, resp |-> Response(200, <<>>, 0)]
    ELSE [pc |-> "bulk_apply", items |-> batch, resp |-> NoResp]

\* The row update_or_create(user_id, course_id, defaults) stores when the
\* pair has no row: the model is built from the lookup and the defaults and
\* saved through LearningProgress.save, for a course of `total` lessons.
CreatedRow(it, total, t) ==
    Save(NewRow(it.user_id, it.course_id, it.lessons_completed, it.time_spent_minutes),
         total, t)

\* The row update_or_create stores when the pair has row `row`: the defaults
\* are set on the row just read (under select_for_update) and it is saved
\* through LearningProgress.save, every column written.
UpdatedRow(row, it, total, t) ==
    Save([row EXCEPT !.lessons_completed = it.lessons_completed,
                     !.time_spent_minutes = it.time_spent_minutes],
         total, t)

\* update_or_create run on `table` with no other request in between: the
\* lookup, then the INSERT or the UPDATE of the row found.
Upsert(table, it, t) ==
    LET found == {i \in DOMAIN table : table[i].user = it.user_id
                                       /\ table[i].course = it.course_id}
    IN  IF found = {}
        THEN Append(table, CreatedRow(it, courses[it.course_id], t))
        ELSE LET i == CHOOSE j \in found : TRUE
             IN  [table EXCEPT ![i] = UpdatedRow(table[i], it, courses[it.course_id], t)]

\* bulk_update's loop over a validated batch, run on `table` at time t.
RECURSIVE ApplyBatch(_, _, _)
ApplyBatch(table, batch, t) ==
    IF batch = <<>>
    THEN table
    ELSE ApplyBatch(Upsert(table, Head(batch), t), Tail(batch), t)

\* bulk_update with every item validated and applied on its own: the valid
\* items are stored, and the response is a 400 if some item was not.
BulkValidatePartial(w, batch) ==
    /\ pc[w] = "idle"
    /\ progress' = ApplyBatch(progress, SelectSeq(batch, LAMBDA it : ItemErrors(it) = {}), now)
    /\ everFull' = [i \in DOMAIN progress' |->
                       Noted(IF i \in DOMAIN everFull THEN everFull[i] ELSE Null,
                             progress'[i])]
    /\ resp' = IF BatchValid(batch)
               THEN Response(200, <<>>, Len(batch))
               ELSE Response(400, BatchErrors(batch), 0)
    /\ count' = [count EXCEPT ![w] = 0]
    /\ UNCHANGED <<courses, now, pc, items, inst, analytics>>

\* bulk_update up to the loop: validation of the whole batch, then either the
\* 400 response or the loop over serializer.validated_data.
BulkValidate(w, batch) ==
    /\ pc[w] = "idle"
    /\ pc' = [pc EXCEPT ![w] = BulkOutcome(batch).pc]
    /\ items' = [items EXCEPT ![w] = BulkOutcome(batch).items]
    /\ resp' = BulkOutcome(batch).resp
    /\ count' = [count EXCEPT ![w] = 0]
    /\ UNCHANGED <<courses, progress, now, inst, everFull, analytics>>

Created(it) == CreatedRow(it, courses[it.course_id], now)

Updated(i, it) == UpdatedRow(progress[i], it, courses[it.course_id], now)

\* The history after a write that stored `row` as row i.
Note(i, row) ==
    IF i \in DOMAIN everFull
    THEN [everFull EXCEPT ![i] = Noted(@, row)]
    ELSE Append(everFull, Noted(Null, row))

\* The table and the history after a write that stored `row` as row i.
Store(i, row) ==
    /\ progress' = IF i \in DOMAIN progress
                   THEN [progress EXCEPT ![i] = row]
                   ELSE Append(progress, row)
    /\ everFull' = Note(i, row)

\* The end of one iteration of bulk_update's loop: updated_count += 1, and
\* after the last item the 200 response.
NextItem(w) ==
    /\ items' = [items EXCEPT ![w] = Tail(@)]
    /\ IF Tail(items[w]) = <<>>
       THEN /\ pc' = [pc EXCEPT ![w] = "idle"]
            /\ count' = [count EXCEPT ![w] = 0]
            /\ resp' = Response(200, <<>>, count[w] + 1)
       ELSE /\ pc' = [pc EXCEPT ![w] = "bulk_apply"]
            /\ count' = [count EXCEPT ![w] = @ + 1]
            /\ resp' = NoResp

\* update_or_create on the next item: the lookup of the pair.  A row found is
\* updated in the same transaction; none found leads to the INSERT.
BulkApply(w) ==
    /\ pc[w] = "bulk_apply"
    /\ LET it == Head(items[w])
           found == RowsOf(it.user_id, it.course_id)
       IN  IF found = {}
           THEN /\ pc' = [pc EXCEPT ![w] = "bulk_insert"]
                /\ resp' = NoResp
                /\ UNCHANGED <<progress, everFull, items, count>>
           ELSE IF Cardinality(found) > 1
           THEN \* get() raises MultipleObjectsReturned: the request ends in a 500
                /\ pc' = [pc EXCEPT ![w] = "idle"]
                /\ items' = [items EXCEPT ![w] = <<>>]
                /\ count' = [count EXCEPT ![w] = 0]
                /\ resp' = Response(500, <<>>, 0)
                /\ UNCHANGED <<progress, everFull>>
           ELSE /\ \E i \in found : Store(i, Updated(i, it))
                /\ NextItem(w)
    /\ UNCHANGED <<courses, now, inst, analytics>>

\* update_or_create after a lookup that found nothing: the INSERT.  If the
\* datastore refuses it (IntegrityError: another request created the pair
\* meanwhile), the row is read again and updated instead.
BulkInsert(w) ==
    /\ pc[w] = "bulk_insert"
    /\ LET it == Head(items[w])
       IN  IF UniqueTogether(it.user_id, it.course_id, 0)
           THEN Store(Len(progress) + 1, Created(it))
           ELSE \E i \in RowsOf(it.user_id, it.course_id) : Store(i, Updated(i, it))
    /\ NextItem(w)
    /\ UNCHANGED <<courses, now, inst, analytics>>

\* ------------------------------------------- serializer create and update
\* What a client may send to LearningProgressSerializer.
Datas ==
    [user : UserIds, course : CourseIds,
     lessons_completed : 0..MaxLessons, time_spent_minutes : 0..MaxMinutes]

\* validate_lessons_completed against a course of `total` lessons.
LessonErrors(value, total) ==
    IF value > total THEN {<<"max_lessons", total>>} ELSE {}

\* The related-field checks of the serializer: user and course must exist.
RelatedErrors(d) ==
    (IF d.user \notin Users THEN {<<"no_user", d.user>>} ELSE {})
    \cup (IF d.course \notin DOMAIN courses THEN {<<"no_course", d.course>>} ELSE {})

\* The serializer's unique-together validator, run after the field checks.
UniqueErrors(d, id) ==
    IF \E i \in DOMAIN progress :
          i # id /\ progress[i].user = d.user /\ progress[i].course = d.course
    THEN {<<"not_unique", d.course>>}
    ELSE {}

\* POST /api/learning-progress/ up to serializer.save(): validation against
\* the course named in the request (Course.objects.get raises for no course).
CreateValidate(w, d) ==
    /\ pc[w] = "idle"
    /\ IF d.course \notin DOMAIN courses
       THEN /\ resp' = Response(500, <<>>, 0)
            /\ UNCHANGED <<pc, inst>>
       ELSE LET fieldErrors == RelatedErrors(d)
                                 \cup LessonErrors(d.lessons_completed, courses[d.course])
                errors == IF fieldErrors # {} THEN fieldErrors ELSE UniqueErrors(d, 0)
            IN  IF errors # {}
                THEN /\ resp' = Response(400, <<errors>>, 0)
                     /\ UNCHANGED <<pc, inst>>
                ELSE /\ pc' = [pc EXCEPT ![w] = "create_save"]
                     /\ inst' = [inst EXCEPT ![w] =
                                   [id |-> 0,
                                    row |-> NewRow(d.user, d.course, d.lessons_completed,
                                                   d.time_spent_minutes),
                                    total |-> courses[d.course]]]
                     /\ resp' = NoResp
    /\ UNCHANGED <<courses, progress, now, items, count, everFull, analytics>>

\* serializer.save() of a create: LearningProgress.save, then the INSERT, which
\* the datastore refuses (IntegrityError) when the pair is taken.
CreateSave(w) ==
    /\ pc[w] = "create_save"
    /\ LET row == Save(inst[w].row, inst[w].total, now)
       IN  IF UniqueTogether(row.user, row.course, 0)
           THEN /\ Store(Len(progress) + 1, row)
                /\ resp' = Response(201, <<>>, 0)
           ELSE /\ resp' = Response(500, <<>>, 0)
                /\ UNCHANGED <<progress, everFull>>
    /\ pc' = [pc EXCEPT ![w] = "idle"]
    /\ inst' = [inst EXCEPT ![w] = NoInst]
    /\ UNCHANGED <<courses, now, items, count, analytics>>

\* PUT /api/learning-progress/{id}/ up to serializer.save(): get_object reads
\* the row (with its course), the serializer validates lessons_completed
\* against self.instance.course, and the validated data is set on the instance.
UpdateValidate(w, id, d) ==
    /\ pc[w] = "idle"
    /\ IF id \notin DOMAIN progress
       THEN /\ resp' = Response(404, <<>>, 0)
            /\ UNCHANGED <<pc, inst>>
       ELSE LET fieldErrors == RelatedErrors(d)
                                 \cup LessonErrors(d.lessons_completed,
                                                   courses[progress[id].course])
                errors == IF fieldErrors # {} THEN fieldErrors ELSE UniqueErrors(d, id)
            IN  IF errors # {}
                THEN /\ resp' = Response(400, <<errors>>, 0)
                     /\ UNCHANGED <<pc, inst>>
                ELSE /\ pc' = [pc EXCEPT ![w] = "update_save"]
                     /\ inst' = [inst EXCEPT ![w] =
                                   [id |-> id,
                                    row |-> [progress[id] EXCEPT
                                               !.user = d.user,
                                               !.course = d.course,
                                               !.lessons_completed = d.lessons_completed,
                                               !.time_spent_minutes = d.time_spent_minutes],
                                    total |-> courses[d.course]]]
                     /\ resp' = NoResp
    /\ UNCHANGED <<courses, progress, now, items, count, everFull, analytics>>

\* serializer.save() of an update: LearningProgress.save on the instance read
\* earlier, then an UPDATE of every column of the row.
UpdateSave(w) ==
    /\ pc[w] = "update_save"
    /\ LET row == Save(inst[w].row, inst[w].total, now)
       IN  IF UniqueTogether(row.user, row.course, inst[w].id)
           THEN /\ Store(inst[w].id, row)
                /\ resp' = Response(200, <<>>, 0)
           ELSE /\ resp' = Response(500, <<>>, 0)
                /\ UNCHANGED <<progress, everFull>>
    /\ pc' = [pc EXCEPT ![w] = "idle"]
    /\ inst' = [inst EXCEPT ![w] = NoInst]
    /\ UNCHANGED <<courses, now, items, count, analytics>>

\* ------------------------------------------------------------------ system
\* Row ids a client can name: the rows that can exist and one that cannot.
RowIds == 1..(Cardinality(Users) * MaxCourses + 1)

\* The steps of the datastore's other clients: the clock and the course admin.
Environment ==
    \/ Tick
    \/ \E total \in 0..MaxLessons : CourseCreate(total)
    \/ \E c \in CourseIds, total \in 0..MaxLessons : CourseEdit(c, total)

\* Requests served one at a time: a single worker, batches of up to MaxBatch.
Next ==
    \/ Environment
    \/ \E batch \in Batches : BulkValidate("w1", batch)
    \/ BulkApply("w1")
    \/ BulkInsert("w1")
    \/ \E d \in Datas : CreateValidate("w1", d)
    \/ CreateSave("w1")
    \/ \E id \in RowIds, d \in Datas : UpdateValidate("w1", id, d)
    \/ UpdateSave("w1")

Spec == Init /\ [][Next]_vars

\* Workers inside a serializer request (between validation and save).
Saving == {w \in Workers : pc[w] \in {"create_save", "update_save"}}

\* Concurrent requests: every worker serves requests, their steps interleave.
\* At most MaxSaving serializer requests are in flight at once, and a bulk
\* request carries up to MaxRaceBatch items.
RaceNext ==
    \/ Environment
    \/ \E w \in Workers, batch \in RaceBatches : BulkValidate(w, batch)
    \/ \E w \in Workers : BulkApply(w)
    \/ \E w \in Workers : BulkInsert(w)
    \/ \E w \in Workers, d \in Datas :
          Cardinality(Saving) < MaxSaving /\ CreateValidate(w, d)
    \/ \E w \in Workers : CreateSave(w)
    \/ \E w \in Workers, id \in RowIds, d \in Datas :
          Cardinality(Saving) < MaxSaving /\ UpdateValidate(w, id, d)
    \/ \E w \in Workers : UpdateSave(w)

RaceSpec == Init /\ [][RaceNext]_vars


\* ------------------------------------------------------ performance metrics
\* The metric_type choices, in the order comparison goes through them.
MetricTypes == <<"page_load", "api_response", "engagement", "conversion">>

MetricTypeSet == {MetricTypes[k] : k \in DOMAIN MetricTypes}

\* What a client may send to UserPerformanceMetricSerializer; -1 is a value
\* validate_value refuses.
Samples ==
    [user : UserIds, metric_type : MetricTypeSet, value : -1..MaxValue,
     is_optimized : BOOLEAN]

\* The place of a deleted sample: ids are never given out twice.
Gone == [user |-> 0, metric_type |-> "", value |-> 0, is_optimized |-> FALSE,
         timestamp |-> 0]

\* UserPerformanceMetricSerializer: user must exist, validate_value.
SampleErrors(d) ==
    (IF d.user \notin Users THEN {<<"no_user", d.user>>} ELSE {})
    \cup (IF d.value < 0 THEN {<<"value", "must be positive">>} ELSE {})

\* The integer nearest to n / d (d > 0), a tie going to the even one.
RoundDiv(n, d) ==
    LET q == n \div d
        r == n % d
    IN  IF 2 * r < d THEN q
        ELSE IF 2 * r > d THEN q + 1
        ELSE IF q % 2 = 0 THEN q ELSE q + 1

\* round(n / d, 2), in hundredths.
Round2(n, d) == RoundDiv(n * 100, d)

\* What evaluating a Python expression gives: a number (in hundredths), or
\* an exception raised.
Value(v) == [raised |-> FALSE, value |-> v]

Raised == [raised |-> TRUE, value |-> 0]

\* round(n / d * 100, 2): the division raises ZeroDivisionError for d = 0.
PercentOf(n, d) == IF d = 0 THEN Raised ELSE Value(Round2(n * 100, d))

\* Python's None, where a number is expected.
None == [none |-> TRUE]

\* The rows .order_by('-timestamp').first() may return for sample id: the
\* baseline samples of its user and metric type with the latest timestamp
\* before its own.  Rows of equal timestamp come in an order the ordering
\* does not determine.
LatestBaselines(m, id) ==
    LET earlier == {j \in DOMAIN m :
                       /\ m[j] # Gone
                       /\ m[j].user = m[id].user
                       /\ m[j].metric_type = m[id].metric_type
                       /\ ~m[j].is_optimized
                       /\ m[j].timestamp < m[id].timestamp}
    IN  {j \in earlier : \A k \in earlier : m[k].timestamp <= m[j].timestamp}

\* UserPerformanceMetric.improvement_percentage of sample id: the outcomes
\* evaluating it can have.
ImprovementPercentage(m, id) ==
    IF ~m[id].is_optimized
    THEN {None}
    ELSE IF LatestBaselines(m, id) = {}
    THEN {None}
    ELSE {PercentOf(m[j].value - m[id].value, m[j].value) :
              j \in LatestBaselines(m, id)}

\* Evaluating the property raised an exception.
Fails(o) == o # None /\ o.raised

\* POST /api/performance-metrics/: the sample is stored with timestamp now,
\* and the response is its representation, improvement_percentage included.
MetricCreate(d) ==
    /\ Len(metrics) < MaxMetrics
    /\ IF SampleErrors(d) # {}
       THEN /\ reply' = Reply("metric-create", 400, SampleErrors(d))
            /\ UNCHANGED metrics
       ELSE /\ metrics' = Append(metrics,
                                 [user |-> d.user, metric_type |-> d.metric_type,
                                  value |-> d.value, is_optimized |-> d.is_optimized,
                                  timestamp |-> now])
            /\ \E o \in ImprovementPercentage(metrics', Len(metrics) + 1) :
                   reply' = Reply("metric-create",
                                  IF Fails(o) THEN 500 ELSE 201, Len(metrics) + 1)
    /\ UNCHANGED <<learning, now, logs, cache, origin>>

\* PUT /api/performance-metrics/{id}/: every writable field of the sample is
\* set from the request; timestamp is read-only.
MetricUpdate(id, d) ==
    /\ IF id \notin DOMAIN metrics \/ metrics[id] = Gone
       THEN /\ reply' = Reply("metric-update", 404, id)
            /\ UNCHANGED metrics
       ELSE IF SampleErrors(d) # {}
       THEN /\ reply' = Reply("metric-update", 400, SampleErrors(d))
            /\ UNCHANGED metrics
       ELSE /\ metrics' = [metrics EXCEPT ![id] =
                             [user |-> d.user, metric_type |-> d.metric_type,
                              value |-> d.value, is_optimized |-> d.is_optimized,
                              timestamp |-> @.timestamp]]
            /\ \E o \in ImprovementPercentage(metrics', id) :
                   reply' = Reply("metric-update",
                                  IF Fails(o) THEN 500 ELSE 200, id)
    /\ UNCHANGED <<learning, now, logs, cache, origin>>

\* DELETE /api/performance-metrics/{id}/
MetricDestroy(id) ==
    /\ IF id \notin DOMAIN metrics \/ metrics[id] = Gone
       THEN /\ reply' = Reply("metric-destroy", 404, id)
            /\ UNCHANGED metrics
       ELSE /\ metrics' = [metrics EXCEPT ![id] = Gone]
            /\ reply' = Reply("metric-destroy", 204, id)
    /\ UNCHANGED <<learning, now, logs, cache, origin>>

\* GET /api/performance-metrics/{id}/: the representation of the sample.
MetricRetrieve(id) ==
    /\ IF id \notin DOMAIN metrics \/ metrics[id] = Gone
       THEN reply' = Reply("metric-retrieve", 404, id)
       ELSE \E o \in ImprovementPercentage(metrics, id) :
                reply' = IF Fails(o)
                         THEN Reply("metric-retrieve", 500, id)
                         ELSE Reply("metric-retrieve", 200,
                                    [id |-> id, improvement_percentage |-> o])
    /\ UNCHANGED <<learning, now, metrics, logs, cache, origin>>

\* filter(metric_type=t, is_optimized=opt) with the is_optimized test left out.
GroupAnyStatus(m, t, opt) ==
    {i \in DOMAIN m : m[i] # Gone /\ m[i].metric_type = t}

\* UserPerformanceMetric.objects.filter(metric_type=t, is_optimized=opt)
Group(m, t, opt) ==
    {i \in DOMAIN m : m[i] # Gone /\ m[i].metric_type = t /\ m[i].is_optimized = opt}

\* UserPerformanceMetric.objects.filter(metric_type=t)
OfType(m, t) == {i \in DOMAIN m : m[i] # Gone /\ m[i].metric_type = t}

RECURSIVE SumValue(_, _)
SumValue(m, S) ==
    IF S = {}
    THEN 0
    ELSE LET i == CHOOSE j \in S : TRUE
         IN  m[i].value + SumValue(m, S \ {i})

\* aggregate(Avg('value')) over the rows S: the exact quotient sum / n, and
\* None (n = 0) over no rows.
Avg(m, S) == [sum |-> SumValue(m, S), n |-> Cardinality(S)]

\* Python's truth value of an average: None and 0.0 are false.
Truthy(avg) == avg.n > 0 /\ avg.sum # 0

\* `avg or 0`
OrZero(avg) == IF Truthy(avg) THEN avg ELSE [sum |-> 0, n |-> 1]

\* ((before - after) / before) * 100 for the averages before and after, rounded.
Improvement(before, after) ==
    PercentOf(before.sum * after.n - after.sum * before.n, before.sum * after.n)

\* The test comparison makes before it reports a metric type.
Compared(m, t) ==
    Truthy(Avg(m, Group(m, t, FALSE))) /\ Truthy(Avg(m, Group(m, t, TRUE)))

\* One entry of the comparison; numbers are in hundredths but sample_size.
ComparisonEntry(m, t) ==
    LET before == Avg(m, Group(m, t, FALSE))
        after == Avg(m, Group(m, t, TRUE))
    IN  [metric_type |-> t,
         before_optimization |-> Round2(before.sum, before.n),
         after_optimization |-> Round2(after.sum, after.n),
         improvement_percentage |-> Improvement(before, after).value,
         sample_size |-> Cardinality(OfType(m, t))]

\* The body of GET /api/performance-metrics/comparison/ over the table m.
Comparison(m) ==
    LET kept == SelectSeq(MetricTypes, LAMBDA t : Compared(m, t))
    IN  [k \in DOMAIN kept |-> ComparisonEntry(m, kept[k])]

\* GET /api/performance-metrics/comparison/
ComparisonRequest ==
    /\ reply' = Reply("comparison", 200, Comparison(metrics))
    /\ UNCHANGED <<learning, now, metrics, logs, cache, origin>>

\* ------------------------------------------------------------------- clock
\* Time passes, for as long as the windows and the cache entries need.
Elapse ==
    /\ now < MaxTime
    /\ now' = now + 1
    /\ UNCHANGED <<learning, metrics, logs, cache, reply, origin>>

\* -------------------------------------------------------- the response cache
DashboardPath == "/api/dashboard/"

PopularPath == "/api/courses/popular/"

StatisticsPath == "/api/api-logs/statistics/"

BulkUpdatePath == "/api/learning-progress/bulk_update/"

\* Query strings a client may put on a cached endpoint.
Queries == {"", "page=1"}

\* The key cache_page stores a response under: the request's path and query
\* string go into it.
PageKey(path, query) == <<"views.decorators.cache.cache_page", path, query>>

\* The key APIPerformanceLoggingMixin.dispatch looks up.
ViewKey(path, query) == <<"view_cache", path, query>>

\* cache.get(key) without the expiry: an entry stays for ever.
GetForEver(c, key, t) ==
    IF key \in DOMAIN c THEN {c[key].value} ELSE {}

\* cache.get(key) at time t: the value stored under key if there is one and
\* it has not expired ({}: None).
Get(c, key, t) ==
    IF key \in DOMAIN c /\ t < c[key].expires THEN {c[key].value} ELSE {}

\* cache.set(key, value, timeout) at time t.
Set(c, key, value, timeout, t) ==
    [k \in DOMAIN c \cup {key} |->
        IF k = key THEN [value |-> value, expires |-> t + timeout] ELSE c[k]]

\* cache_page(timeout) around a view that answers `fresh`: a GET answered from
\* the cache if the page's key is there, otherwise by the view, whose response
\* is stored if its status is 200.
CachePage(key, timeout, fresh) ==
    IF Get(cache, key, now) # {}
    THEN /\ reply' \in Get(cache, key, now)
         /\ UNCHANGED cache
    ELSE /\ reply' = fresh
         /\ cache' = IF fresh.status = 200
                     THEN Set(cache, key, fresh, timeout, now)
                     ELSE cache

\* ------------------------------------------------------------ API call logs
\* APIPerformanceLoggingMixin.dispatch around a handler answering a request
\* for path?query with `status`: from_cache is looked up before the handler
\* runs, the row is written after it.  `how` is how the handler answered.
Dispatch(path, query, status, how) ==
    /\ logs' = Append(logs,
                      [endpoint |-> path, status_code |-> status,
                       cache_hit |-> Get(cache, ViewKey(path, query), now) # {},
                       timestamp |-> now])
    /\ origin' = Append(origin, how)

\* Rows the admin site may add to the log table.
AdminRows ==
    [endpoint : {BulkUpdatePath}, status_code : {200, 500}, cache_hit : BOOLEAN]

\* admin.site.register(APIResponseLog): a row added by hand, timestamp now.
AdminLogAdd(row) ==
    /\ Len(logs) < MaxLogs
    /\ logs' = Append(logs,
                      [endpoint |-> row.endpoint, status_code |-> row.status_code,
                       cache_hit |-> row.cache_hit, timestamp |-> now])
    /\ origin' = Append(origin, "admin")
    /\ UNCHANGED <<learning, now, metrics, cache, reply>>

\* A request to a handler of a logging viewset that is specified on its own
\* (bulk_update, answered 200 or 400), seen from the logging layer.
Handled(status) ==
    /\ Len(logs) < MaxLogs
    /\ Dispatch(BulkUpdatePath, "", status, "store")
    /\ UNCHANGED <<learning, now, metrics, cache, reply>>

\* filter(timestamp__gte=since) with the filter left out: every row.
SinceEver(l, since) == DOMAIN l

\* APIResponseLog.objects.filter(timestamp__gte=since)
Since(l, since) == {i \in DOMAIN l : l[i].timestamp >= since}

\* round(part / total * 100, 2) if total > 0 else 0
Rate(part, total) == IF total > 0 THEN PercentOf(part, total) ELSE Value(0)

\* One row of the statistics: the logs S of one endpoint.  The latency
\* columns are left out: a latency is no function of the state.
StatRow(l, e, S) ==
    LET total == Cardinality(S)
        cache_hits == Cardinality({i \in S : l[i].cache_hit})
        errors == Cardinality({i \in S : l[i].status_code >= 400})
    IN  [endpoint |-> e,
         total_requests |-> total,
         cache_hit_rate |-> Rate(cache_hits, total).value,
         error_rate |-> Rate(errors, total).value]

\* The body of GET /api/api-logs/statistics/?hours= at time t over the table
\* l: one row per endpoint logged in the window.  The rows come ordered by
\* total_requests, ties as the datastore gives them; the order is left out.
Statistics(l, t, hours) ==
    LET window == Since(l, t - hours)
    IN  {StatRow(l, e, {i \in window : l[i].endpoint = e}) :
            e \in {l[i].endpoint : i \in window}}

\* The values of the query parameter `hours` a client may send: the
\* numerals of the windows, and a text that is no numeral.
HoursParams == {ToString(n) : n \in 0..MaxHours} \cup {"abc"}

\* int(text): the number a numeral denotes; ValueError for any other text.
ParseInt(text) ==
    IF \E n \in 0..MaxHours : ToString(n) = text
    THEN Value(CHOOSE n \in 0..MaxHours : ToString(n) = text)
    ELSE Raised

\* GET /api/api-logs/statistics/?hours=, through the logging layer.  An
\* exception the handler raises that is no APIException leaves dispatch
\* before the log row is written, and the client is answered 500.
StatisticsRequest(param) ==
    /\ Len(logs) < MaxLogs
    /\ IF ParseInt(param).raised
       THEN /\ reply' = Reply("statistics", 500, {})
            /\ UNCHANGED <<logs, origin>>
       ELSE /\ reply' = Reply("statistics", 200,
                              Statistics(logs, now, ParseInt(param).value))
            /\ Dispatch(StatisticsPath, "", 200, "store")
    /\ UNCHANGED <<learning, now, metrics, cache>>

\* get_cache_hit_rate without the `if total == 0` return.
GetCacheHitRateUnguarded(l, t, hours) ==
    PercentOf(Cardinality({i \in Since(l, t - hours) : l[i].cache_hit}),
              Cardinality(Since(l, t - hours)))

\* APIResponseLog.get_cache_hit_rate(hours) at time t, rounded as the
\* dashboard rounds it.
GetCacheHitRate(l, t, hours) ==
    LET total == Cardinality(Since(l, t - hours))
        cached == Cardinality({i \in Since(l, t - hours) : l[i].cache_hit})
    IN  IF total = 0 THEN Value(0) ELSE PercentOf(cached, total)

\* ---------------------------------------------------------------- dashboard
\* `x if before > 0 else 0` with the test left out.
Unguarded(before, x) == x

\* `x if before > 0 else 0`
IfPositive(before, x) == IF before.sum > 0 THEN x ELSE Value(0)

\* perf_improvement of dashboard_view
PerfImprovement(m) ==
    LET before == OrZero(Avg(m, Group(m, "api_response", FALSE)))
        after == OrZero(Avg(m, Group(m, "api_response", TRUE)))
    IN  IfPositive(before, Improvement(before, after))

\* engagement_improvement of dashboard_view:
\* (engagement_after - engagement_before) / engagement_before * 100
EngagementImprovement(m) ==
    LET before == OrZero(Avg(m, Group(m, "engagement", FALSE)))
        after == OrZero(Avg(m, Group(m, "engagement", TRUE)))
    IN  IfPositive(before,
                   PercentOf(after.sum * before.n - before.sum * after.n,
                             before.sum * after.n))

RECURSIVE SumPct(_, _)
SumPct(table, S) ==
    IF S = {}
    THEN 0
    ELSE LET i == CHOOSE j \in S : TRUE
         IN  table[i].completion_percentage + SumPct(table, S \ {i})

\* The view under cache_page, on the store as it is: the response with the
\* numbers of `data` (in hundredths but the counts).  total_courses counts
\* every course: is_active is True unless a client clears it.  The numbers
\* that need a login time or a latency are left out.
DashboardView ==
    LET recent == {i \in OfType(metrics, "page_load") :
                      metrics[i].timestamp >= now - Day}
        page_load == OrZero(Avg(metrics, recent))
        cache_hit_rate == GetCacheHitRate(logs, now, Day)
        perf_improvement == PerfImprovement(metrics)
        engagement_improvement == EngagementImprovement(metrics)
    IN  IF \/ cache_hit_rate.raised
           \/ perf_improvement.raised
           \/ engagement_improvement.raised
        THEN Reply("dashboard", 500, "ZeroDivisionError")
        ELSE Reply("dashboard", 200,
                   [total_users |-> Cardinality(Users),
                    total_courses |-> Len(courses),
                    total_enrollments |-> Len(progress),
                    average_completion_rate |->
                        IF progress = <<>>
                        THEN 0
                        ELSE Round2(SumPct(progress, DOMAIN progress),
                                    Len(progress) * PctScale),
                    avg_page_load_time |-> Round2(page_load.sum, page_load.n),
                    cache_hit_rate |-> cache_hit_rate.value,
                    performance_improvement |-> perf_improvement.value,
                    engagement_improvement |-> engagement_improvement.value])

\* GET /api/dashboard/?query: dashboard_view under cache_page(60 * 5).
DashboardRequest(query) ==
    /\ CachePage(PageKey(DashboardPath, query), DashboardTTL, DashboardView)
    /\ UNCHANGED <<learning, now, metrics, logs, origin>>

\* The body of popular: the courses with their enrollment counts (there are
\* fewer than ten, the order is left out).
PopularView ==
    Reply("popular", 200,
          {[course |-> c,
            enrollment_count |-> Cardinality({i \in DOMAIN progress :
                                                progress[i].course = c})] :
              c \in DOMAIN courses})

\* GET /api/courses/popular/?query: popular under cache_page(60 * 15), inside
\* the logging layer.
PopularRequest(query) ==
    /\ Len(logs) < MaxLogs
    /\ CachePage(PageKey(PopularPath, query), PopularTTL, PopularView)
    /\ Dispatch(PopularPath, query, 200,
                IF Get(cache, PageKey(PopularPath, query), now) # {}
                THEN "cache" ELSE "store")
    /\ UNCHANGED <<learning, now, metrics>>

\* ------------------------------------------------------ analytics systems
\* The metric samples and what is computed from them; the clock stands.
MetricNext ==
    \/ \E d \in Samples : MetricCreate(d)
    \/ \E id \in 1..MaxMetrics, d \in Samples : MetricUpdate(id, d)
    \/ \E id \in 1..MaxMetrics : MetricDestroy(id)
    \/ ComparisonRequest
    \/ DashboardRequest("")

MetricSpec == Init /\ [][MetricNext]_vars

\* The log table, the layer that writes it and the statistics read from it.
LogNext ==
    \/ Elapse
    \/ \E row \in AdminRows : AdminLogAdd(row)
    \/ \E status \in {200, 400} : Handled(status)
    \/ \E param \in HoursParams : StatisticsRequest(param)
    \/ DashboardRequest("")

LogSpec == Init /\ [][LogNext]_vars

\* The cached endpoints and the writes their entries outlive.
CacheNext ==
    \/ Elapse
    \/ \E total \in 0..MaxLessons : CourseCreate(total)
    \/ \E query \in Queries : DashboardRequest(query)
    \/ \E query \in Queries : PopularRequest(query)

CacheSpec == Init /\ [][CacheNext]_vars

\* The metric samples over time, and what reading one of them gives.
SampleNext ==
    \/ Elapse
    \/ \E d \in Samples : MetricCreate(d)
    \/ \E id \in 1..MaxMetrics, d \in Samples : MetricUpdate(id, d)
    \/ \E id \in 1..MaxMetrics : MetricDestroy(id)
    \/ \E id \in 1..MaxMetrics : MetricRetrieve(id)

SampleSpec == Init /\ [][SampleNext]_vars

\* ------------------------------------------- user and course statistics
\* The rows of a user / of a course: obj.learning_progress
ProgressOfUser(table, u) == {i \in DOMAIN table : table[i].user = u}

ProgressOfCourse(table, c) == {i \in DOMAIN table : table[i].course = c}

\* UserSerializer.get_completed_courses:
\* obj.learning_progress.filter(completion_percentage=100).count()
GetCompletedCourses(table, u) ==
    Cardinality({i \in ProgressOfUser(table, u) :
                    table[i].completion_percentage = Full})

\* CourseSerializer.get_completion_rate, in hundredths.
GetCompletionRate(table, c) ==
    LET total_enrolled == Cardinality(ProgressOfCourse(table, c))
        completed == Cardinality({i \in ProgressOfCourse(table, c) :
                                     table[i].completion_percentage = Full})
    IN  IF total_enrolled = 0 THEN Value(0)
        ELSE PercentOf(completed, total_enrolled)

\* ------------------------------------------------------------------ claims
\* A step stores row i: the row is new, or its contents changed.
Written(i) == i \notin DOMAIN progress \/ progress'[i] # progress[i]

\* C1: every stored progress record whose course has total_lessons = L > 0
\* has completion_percentage = lessons_completed / L * 100.
C1_PercentageDerived ==
    \A i \in DOMAIN progress :
        courses[progress[i].course] > 0 =>
            progress[i].completion_percentage
                = Pct(progress[i].lessons_completed, courses[progress[i].course])

\* C2: completed_at is write-once: once a record's completed_at is non-null,
\* no later step of any operation changes it.
C2_CompletedAtWriteOnce ==
    [][\A i \in DOMAIN progress :
          progress[i].completed_at # Null =>
              progress'[i].completed_at = progress[i].completed_at]_vars

\* C3: a record's completed_at is non-null if and only if some write to the
\* record so far stored completion_percentage >= 100, and it is the time of
\* the first such write.
C3_CompletedAtFirstFull ==
    \A i \in DOMAIN progress : progress[i].completed_at = everFull[i]

\* The item a bulk request is about to write exceeds its course's total.
OverTotal(it) == it.lessons_completed > courses[it.course_id]

\* The response of a write refused for lessons_completed over `total`.
RefusedOver(total) ==
    /\ resp'.status = 400
    /\ \E k \in DOMAIN resp'.errors : <<"max_lessons", total>> \in resp'.errors[k]
    /\ progress' = progress

\* C4: any progress write (serializer create or update, or an item of a bulk
\* update) whose lessons_completed exceeds the target course's total_lessons
\* fails with a validation error naming the maximum and leaves the stored
\* records unchanged.
C4_OverTotalRefused ==
    [][/\ \A w \in Workers, d \in Datas :
            (CreateValidate(w, d) /\ d.course \in DOMAIN courses
               /\ d.lessons_completed > courses[d.course])
                => RefusedOver(courses[d.course])
       /\ \A w \in Workers, id \in RowIds, d \in Datas :
            (UpdateValidate(w, id, d) /\ id \in DOMAIN progress
               /\ d.course \in DOMAIN courses
               /\ d.lessons_completed > courses[d.course])
                => RefusedOver(courses[d.course])
       /\ \A w \in Workers :
            (pc[w] \in {"bulk_apply", "bulk_insert"} /\ items'[w] # items[w]
               /\ OverTotal(Head(items[w])))
                => RefusedOver(courses[Head(items[w]).course_id])
      ]_vars

\* C5: every stored progress record has completion_percentage in [0, 100].
C5_PercentageInRange ==
    \A i \in DOMAIN progress :
        /\ progress[i].completion_percentage >= 0
        /\ progress[i].completion_percentage <= Full

\* A worker inside the loop of bulk_update.
InBulk(w) == pc[w] \in {"bulk_apply", "bulk_insert"}

C7_OneRecordPerPair ==
    \A i, j \in DOMAIN progress :
        i # j => ~(progress[i].user = progress[j].user
                   /\ progress[i].course = progress[j].course)

\* A request found no row of its pair and is about to insert one, while
\* another request has created the pair's row meanwhile.
C7_Witness ==
    \E w \in Workers :
        \/ /\ pc[w] = "bulk_insert"
           /\ RowsOf(Head(items[w]).user_id, Head(items[w]).course_id) # {}
        \/ /\ pc[w] = "create_save"
           /\ RowsOf(inst[w].row.user, inst[w].row.course) # {}

\* completion_percentage as the progress tracker's contract derives it:
\* lessons_completed / total_lessons * 100, and 0 if total_lessons is 0.
ContractPct(l, total) == IF total > 0 THEN Pct(l, total) ELSE 0

\* C8: when two bulk updates run concurrently with an item for the same
\* (user, course) key each, every commit of one of those items leaves the
\* key's record with that item's lessons_completed and time_spent_minutes
\* and the completion_percentage derived from that item's lessons_completed
\* (so the record finally stored is the last committer's, never a mix).
C8_LastWriterWins ==
    [][\A w \in Workers :
          (/\ InBulk(w)
           /\ items'[w] = Tail(items[w])
           /\ \E v \in Workers \ {w} :
                 /\ InBulk(v)
                 /\ Head(items[v]).user_id = Head(items[w]).user_id
                 /\ Head(items[v]).course_id = Head(items[w]).course_id)
          => LET it == Head(items[w])
             IN  \E i \in DOMAIN progress' :
                    /\ progress'[i].user = it.user_id
                    /\ progress'[i].course = it.course_id
                    /\ progress'[i].lessons_completed = it.lessons_completed
                    /\ progress'[i].time_spent_minutes = it.time_spent_minutes
                    /\ progress'[i].completion_percentage
                          = ContractPct(it.lessons_completed, courses[it.course_id])]_vars

\* C9: bulk update is idempotent under retry: from any reachable store,
\* applying a valid batch a second time (at the same or a later time, no write
\* in between) leaves the table exactly as the first application left it.
C9_BulkIdempotent ==
    \A batch \in Batches :
        BatchValid(batch) =>
            \A t1 \in now..MaxClock : \A t2 \in t1..MaxClock :
                ApplyBatch(ApplyBatch(progress, batch, t1), batch, t2)
                    = ApplyBatch(progress, batch, t1)

\* A bulk request of two items has just been answered, the record it wrote
\* was completed at an earlier time, and the store is what a retry of some
\* two-item batch leaves in place.
C9_Witness ==
    /\ resp.status = 200
    /\ resp.updated_count = 2
    /\ \E i \in DOMAIN progress :
          progress[i].completed_at # Null /\ progress[i].completed_at < now
    /\ \E batch \in Batches :
          /\ Len(batch) = 2
          /\ BatchValid(batch)
          /\ ApplyBatch(progress, batch, now) = progress

\* C10: after any write to a progress record whose course has
\* total_lessons = 0, the stored completion_percentage of the record is 0.
C10_ZeroTotalZeroPct ==
    [][\A i \in DOMAIN progress' :
          (Written(i) /\ courses[progress'[i].course] = 0)
              => progress'[i].completion_percentage = 0]_vars

\* The stored samples of metric type t: the baseline ones (is_optimized =
\* false), the optimized ones, and the sum of the values of the samples S.
Baseline(t) ==
    {i \in DOMAIN metrics :
        metrics[i] # Gone /\ metrics[i].metric_type = t /\ ~metrics[i].is_optimized}

Optimized(t) ==
    {i \in DOMAIN metrics :
        metrics[i] # Gone /\ metrics[i].metric_type = t /\ metrics[i].is_optimized}

RECURSIVE Total(_)
Total(S) ==
    IF S = {} THEN 0
    ELSE LET i == CHOOSE j \in S : TRUE IN metrics[i].value + Total(S \ {i})

\* The entries the comparison over the stored samples has for metric type t.
EntriesOf(t) ==
    {k \in DOMAIN Comparison(metrics) : Comparison(metrics)[k].metric_type = t}

\* C11: the metric comparison result contains no entry for any metric_type
\* whose set of baseline samples or whose set of optimized samples is empty.
C11_EmptyGroupOmitted ==
    \A t \in MetricTypeSet :
        (Baseline(t) = {} \/ Optimized(t) = {}) => EntriesOf(t) = {}

\* A comparison was answered with no entry while a metric type has a baseline
\* sample of a positive value and no optimized sample.
C11_Witness ==
    /\ reply.endpoint = "comparison"
    /\ reply.body = <<>>
    /\ Comparison(metrics) = <<>>
    /\ \E t \in MetricTypeSet :
          /\ Optimized(t) = {}
          /\ \E i \in Baseline(t) : metrics[i].value > 0

\* C12: for every metric_type with at least one baseline sample, at least one
\* optimized sample and a nonzero baseline average, the comparison result has
\* exactly one entry for it, with improvement_percentage =
\* (before_avg - after_avg) / before_avg * 100 and sample_size = number of
\* baseline samples + number of optimized samples.
C12_ComparedEntry ==
    \A t \in MetricTypeSet :
        LET nb == Cardinality(Baseline(t))
            na == Cardinality(Optimized(t))
            sb == Total(Baseline(t))
            sa == Total(Optimized(t))
        IN  (nb > 0 /\ na > 0 /\ sb # 0) =>
                /\ Cardinality(EntriesOf(t)) = 1
                /\ \A k \in EntriesOf(t) :
                      /\ Comparison(metrics)[k].improvement_percentage * (sb * na)
                            = (sb * na - sa * nb) * 100 * 100
                      /\ Comparison(metrics)[k].sample_size = nb + na

\* C13: whenever the comparison result over the stored samples has an entry
\* for 'api_response' (respectively 'engagement'), the dashboard computed
\* over the same samples has performance_improvement (respectively
\* engagement_improvement) equal to that entry's improvement_percentage.
C13_DashboardReusesComparison ==
    /\ \A k \in EntriesOf("api_response") :
          /\ DashboardView.status = 200
          /\ DashboardView.body.performance_improvement
                = Comparison(metrics)[k].improvement_percentage
    /\ \A k \in EntriesOf("engagement") :
          /\ DashboardView.status = 200
          /\ DashboardView.body.engagement_improvement
                = Comparison(metrics)[k].improvement_percentage

\* The stored logs of endpoint e with timestamp inside the window of `hours`
\* that ends now.
InWindow(e, hours) ==
    {i \in DOMAIN logs : /\ logs[i].endpoint = e
                         /\ logs[i].timestamp >= now - hours
                         /\ logs[i].timestamp <= now}

Hits(S) == Cardinality({i \in S : logs[i].cache_hit})

Errors(S) == Cardinality({i \in S : logs[i].status_code >= 400})

\* rate (in hundredths) is exactly part / total * 100.
ExactRate(rate, part, total) == rate * total = part * 100 * 100

\* rate (in hundredths) is part / total * 100 to two decimal places: no
\* further from it than half a hundredth.
RateToTwoPlaces(rate, part, total) ==
    /\ 2 * (rate * total - part * 100 * 100) <= total
    /\ 2 * (part * 100 * 100 - rate * total) <= total

\* C14 (as stated): in the statistics for a lookback window, each returned row
\* for an endpoint has total_requests = the number of stored logs of that
\* endpoint with timestamp inside the window, cache_hit_rate = (logs with
\* cache_hit) / total * 100 and error_rate = (logs with status_code >= 400) /
\* total * 100.
C14_RatesExact ==
    \A hours \in 0..MaxHours : \A row \in Statistics(logs, now, hours) :
        LET S == InWindow(row.endpoint, hours)
        IN  /\ row.total_requests = Cardinality(S)
            /\ ExactRate(row.cache_hit_rate, Hits(S), Cardinality(S))
            /\ ExactRate(row.error_rate, Errors(S), Cardinality(S))

\* C14 (amended): each returned row for an endpoint has total_requests = the
\* number of stored logs of that endpoint with timestamp inside the window,
\* and cache_hit_rate and error_rate are (logs with cache_hit) / total * 100
\* and (logs with status_code >= 400) / total * 100 rounded to two decimal
\* places.
C14_RatesRounded ==
    \A hours \in 0..MaxHours : \A row \in Statistics(logs, now, hours) :
        LET S == InWindow(row.endpoint, hours)
        IN  /\ row.total_requests = Cardinality(S)
            /\ row.total_requests > 0
            /\ RateToTwoPlaces(row.cache_hit_rate, Hits(S), Cardinality(S))
            /\ RateToTwoPlaces(row.error_rate, Errors(S), Cardinality(S))

\* A statistics request was answered with a row of three logs, one of them a
\* cache hit and two of them errors: 33.33 and 66.67.
C14_Witness ==
    /\ reply.endpoint = "statistics"
    /\ \E row \in reply.body :
          /\ row.total_requests = 3
          /\ row.cache_hit_rate = 3333
          /\ row.error_rate = 6667

\* C15: for every set of stored API logs and every window, each reported
\* cache hit rate and error rate (the rows of the statistics and the
\* dashboard's cache hit rate) lies in [0, 100], and the rate is 0, not an
\* error, when the window contains no logs.
C15_RatesInRange ==
    /\ \A hours \in 0..MaxHours : \A row \in Statistics(logs, now, hours) :
          /\ row.cache_hit_rate \in 0..(100 * 100)
          /\ row.error_rate \in 0..(100 * 100)
    /\ \A hours \in (0..MaxHours) \cup {Day} :
          LET rate == GetCacheHitRate(logs, now, hours)
          IN  /\ ~rate.raised
              /\ rate.value \in 0..(100 * 100)
              /\ (\A i \in DOMAIN logs : logs[i].timestamp < now - hours)
                    => rate.value = 0
    /\ DashboardView.status = 200
    /\ DashboardView.body.cache_hit_rate \in 0..(100 * 100)

\* The dashboard answered with a cache hit rate of 0 from a log table whose
\* rows, a cache hit among them, are all older than its window.
C15_Witness ==
    /\ reply.endpoint = "dashboard"
    /\ reply = DashboardView
    /\ reply.body.cache_hit_rate = 0
    /\ \E i \in DOMAIN logs : logs[i].cache_hit
    /\ \A i \in DOMAIN logs : logs[i].timestamp < now - Day

\* The dashboard responses in the cache that have not expired, whatever the
\* query string they were computed for.
LiveDashboard ==
    {cache[key].value : key \in {k \in DOMAIN cache :
                                    k[2] = DashboardPath /\ now < cache[k].expires}}

\* C16 (as stated): from the moment a dashboard response is computed until
\* its TTL elapses, every dashboard request returns that same response
\* regardless of intervening writes, and the first request after the TTL
\* elapses returns values recomputed from the then-current store.
C16_FrozenForTTL ==
    [][\A query \in Queries :
          DashboardRequest(query) =>
              IF LiveDashboard # {}
              THEN reply' \in LiveDashboard
              ELSE reply' = DashboardView]_vars

\* C16 (amended): every dashboard request that finds an unexpired entry under
\* its own cache key (path and query string) returns that entry's response,
\* stored less than a TTL before, regardless of intervening writes; a request
\* that finds none (the first one after the TTL elapses, or one with another
\* query string) returns values recomputed from the then-current store and
\* stores them under its key for a TTL; and no step other than a cached
\* request changes the cache.
C16_FrozenPerKey ==
    [][/\ \A query \in Queries :
             DashboardRequest(query) =>
                 LET key == PageKey(DashboardPath, query)
                 IN  IF key \in DOMAIN cache /\ now < cache[key].expires
                     THEN /\ reply' = cache[key].value
                          /\ cache[key].expires - DashboardTTL <= now
                          /\ cache' = cache
                     ELSE /\ reply' = DashboardView
                          /\ cache'[key] = [value |-> DashboardView,
                                            expires |-> now + DashboardTTL]
       /\ (\A query \in Queries :
              ~DashboardRequest(query) /\ ~PopularRequest(query))
             => cache' = cache]_vars

\* The dashboard's last answer is the entry of the empty query string, while
\* the entry of another query string was computed later and differs: a write
\* came after the first was computed, and a request was then answered with it.
C16_Witness ==
    /\ reply.endpoint = "dashboard"
    /\ PageKey(DashboardPath, "") \in DOMAIN cache
    /\ PageKey(DashboardPath, "page=1") \in DOMAIN cache
    /\ reply = cache[PageKey(DashboardPath, "")].value
    /\ reply # cache[PageKey(DashboardPath, "page=1")].value
    /\ cache[PageKey(DashboardPath, "")].expires
          < cache[PageKey(DashboardPath, "page=1")].expires
    /\ now < cache[PageKey(DashboardPath, "")].expires
    /\ reply # DashboardView

\* C17: UserPerformanceMetric samples are append-only: once a sample is
\* created, no API operation changes any of its fields or removes it (no
\* user is deleted here, so no sample goes by cascade).
C17_SamplesAppendOnly ==
    [][\A i \in DOMAIN metrics :
          metrics[i] # Gone => metrics'[i] = metrics[i]]_vars

\* C18: each APIResponseLog row written by the request-logging layer has
\* cache_hit true exactly when the response of that call was served from the
\* response cache, and false when it was computed from the datastore.
C18_CacheHitRecorded ==
    \A i \in DOMAIN logs :
        origin[i] # "admin" => (logs[i].cache_hit <=> origin[i] = "cache")

\* C19: in the dashboard, performance_improvement and engagement_improvement
\* each default to 0, independently of the other, whenever the corresponding
\* baseline average is 0 or the baseline group is empty; computing the
\* dashboard never fails with a division by zero.
C19_ImprovementDefaults ==
    /\ DashboardView.status = 200
    /\ (Baseline("api_response") = {} \/ Total(Baseline("api_response")) = 0)
          => DashboardView.body.performance_improvement = 0
    /\ (Baseline("engagement") = {} \/ Total(Baseline("engagement")) = 0)
          => DashboardView.body.engagement_improvement = 0

\* The dashboard answered 200 with performance_improvement 0 over an
\* 'api_response' baseline that averages 0 and an optimized sample that does
\* not.
C19_Witness ==
    /\ reply.endpoint = "dashboard"
    /\ reply.status = 200
    /\ reply = DashboardView
    /\ reply.body.performance_improvement = 0
    /\ Baseline("api_response") # {}
    /\ Total(Baseline("api_response")) = 0
    /\ Total(Optimized("api_response")) > 0

\* C20: when a bulk-update request is answered with HTTP 400 because at least
\* one item failed validation, no progress record has been created or
\* modified by that request: the stored progress records are the same before
\* and after it.
C20_RefusedBulkWritesNothing ==
    [][\A w \in Workers :
          \/ progress' = progress
          \/ ~(/\ resp'.status = 400
                /\ pc[w] = "idle"
                /\ \E batch \in Batches : BulkValidate(w, batch))]_vars

\* A bulk request of a valid item and a failing one was answered 400 over a
\* store that holds records.
C20_Witness ==
    /\ resp.status = 400
    /\ Len(resp.errors) = 2
    /\ resp.errors[1] = {}
    /\ resp.errors[2] # {}
    /\ progress # <<>>

\* C21: every stored progress record that reports is_completed = true (stored
\* completion_percentage >= 100) has a non-null completed_at.
C21_CompletedHasCompletedAt ==
    \A i \in DOMAIN progress :
        IsCompleted(progress[i]) => progress[i].completed_at # Null

\* Two workers have written the store, and a record in it is completed.
C21_Witness ==
    /\ \E i \in DOMAIN progress : IsCompleted(progress[i])
    /\ \E w \in Workers : pc[w] # "idle"

\* C22: the completed_courses count reported for a user equals the number of
\* the user's progress records whose is_completed is true, and a course's
\* completion_rate is the share of its records whose is_completed is true.
C22_CompletedCountsIsCompleted ==
    /\ \A u \in Users :
           GetCompletedCourses(progress, u)
               = Cardinality({i \in ProgressOfUser(progress, u) :
                                 IsCompleted(progress[i])})
    /\ \A c \in DOMAIN courses :
           GetCompletionRate(progress, c)
               = LET S == ProgressOfCourse(progress, c)
                 IN  Rate(Cardinality({i \in S : IsCompleted(progress[i])}),
                          Cardinality(S))

\* C23: for every stored metric sample, the per-sample improvement_percentage
\* is either absent (sample not optimized, or no earlier baseline sample of
\* the same user and metric type) or a number computed from the latest
\* earlier baseline; evaluating it never fails, and no response that carries
\* it fails.
C23_ImprovementNeverFails ==
    /\ \A id \in DOMAIN metrics :
           metrics[id] # Gone =>
               \A o \in ImprovementPercentage(metrics, id) :
                   \/ /\ o = None
                      /\ \/ ~metrics[id].is_optimized
                         \/ LatestBaselines(metrics, id) = {}
                   \/ /\ o # None
                      /\ ~o.raised
                      /\ metrics[id].is_optimized
                      /\ LatestBaselines(metrics, id) # {}
    /\ reply.status # 500

\* The statistics row of the statistics endpoint itself counts n requests
\* (no row: 0).
CountsItself(body, n) ==
    IF n = 0
    THEN \A row \in body : row.endpoint # StatisticsPath
    ELSE \E row \in body : row.endpoint = StatisticsPath /\ row.total_requests = n

\* C24: every request dispatched through a logging viewset appends exactly
\* one log row, of that request, and appends it after the response has been
\* computed: the response of a statistics request is computed from the logs
\* before the request and does not count it, while the statistics over a
\* window containing it, computed next, do.
C24_OneRowPerRequest ==
    [][/\ \/ /\ Len(logs') = Len(logs) + 1
             /\ logs'[Len(logs')].timestamp = now
          \/ ~(\/ \E param \in HoursParams : StatisticsRequest(param)
               \/ \E status \in {200, 400} : Handled(status))
       /\ \A param \in HoursParams :
             StatisticsRequest(param) =>
                LET asked == IF ParseInt(param).raised THEN 0 ELSE ParseInt(param).value
                    before == Cardinality(InWindow(StatisticsPath, asked))
                IN  /\ logs'[Len(logs')].endpoint = StatisticsPath
                    /\ reply'.status = 200
                    /\ CountsItself(reply'.body, before)
                    /\ CountsItself(Statistics(logs', now, asked), before + 1)]_vars

TypeOK ==
    /\ courses \in Seq(0..MaxLessons)
    /\ now \in 1..MaxTime
    /\ \A w \in Workers : pc[w] \in {"idle", "bulk_apply", "bulk_insert", "create_save", "update_save"}
    /\ Len(everFull) = Len(progress)

====
